---- MODULE Spec2Model ----
(***************************************************************************)
(* AgentMonitor: event ingest, session lifecycle, idle sweeper and the SSE *)
(* subscriber registry, modelled from src/src/db/queries.ts,               *)
(* src/src/db/schema.ts, src/src/server.ts and src/src/sse/emitter.ts.     *)
(*                                                                         *)
(* Time is counted in whole minutes (datetime('now') of SQLite, coarsened  *)
(* to the unit the idle threshold is given in).  A nullable column is a    *)
(* sequence: <<>> is NULL, <<v>> is the value v.                           *)
(***************************************************************************)
EXTENDS Integers, Sequences, FiniteSets, TLC

\* ---------------------------------------------------------------- bounds

\* The minutes of history the clock tells apart (more than twice the idle
\* threshold).
MaxTime == 4

\* Largest number of rows of the events table.
MaxEvents == 2

\* Largest number of items of one batch request.
MaxBatch == 2

\* Number of frames of a subscriber's stream that are recorded.
MaxFrames == 4

\* config.sessionTimeoutMinutes (AGENTMONITOR_SESSION_TIMEOUT, at least 1).
SessionTimeoutMinutes == 1

\* config.maxSseClients (AGENTMONITOR_MAX_SSE_CLIENTS, at least 1).
MaxSseClients == 1

\* config.maxPayloadKB (AGENTMONITOR_MAX_PAYLOAD_KB).
MaxPayloadKB == 1

\* The most layers of quoting, encoding and padding around a request body.
MaxWrap == 3

\* The most rows a table that is read holds beyond one default page.
MaxOver == 2

\* The largest cumulative value an OTLP counter reports.
MaxValue == 3

\* The most data points the OTLP metric parser is given.
MaxReports == 3

SessionIds == {"s1", "s2"}

EventIds == {"e1", "e2"}

\* The event_id of a payload that carries none (stored as NULL).
NoEventId == "none"

AgentTypes == {"claude_code"}

EventTypes == {"tool_use", "session_end"}

ClientIds == {"c1", "c2"}

NULL == <<>>

\* A field that a broadcast payload does not carry (undefined).
Absent == "absent"

\* The agent types a subscriber may filter on: those that are ingested and
\* one that no event of the model carries.
FilterAgentTypes == AgentTypes \cup {"codex"}

\* The filters of a subscriber; "" is a filter that is not set.
Filters == [agentType : FilterAgentTypes \cup {""}, eventType : EventTypes \cup {""}]

NoFilter == [agentType |-> "", eventType |-> ""]

\* The age, in minutes, from which the client_timestamp of an imported
\* event counts as historical.
HistoricalMinutes == 60

\* ------------------------------------------------------------------ state

VARIABLES
    now,          \* the clock, in minutes
    agents,       \* agents table: id -> [agent_type, last_seen_at]
    sessions,     \* sessions table: id -> row
    events,       \* events table: the rows in insertion (rowid) order
    clients,      \* SSEBroadcaster.clients
    frames,       \* client -> the first MaxFrames frames written to its response
    filters,      \* client -> the filters addClient stored with it
    heartbeats,   \* the clients whose heartbeat interval is running
    conn,         \* client -> the state of its connection
    submitted,    \* the event_id values that ingest requests have carried
    last,         \* the last operation, its input and its result
    proc          \* the server process: its listener, timers, store and exit

vars == <<now, agents, sessions, events, clients, frames, filters, heartbeats, conn,
          submitted, last, proc>>

Payloads ==
    [event_id : EventIds \cup {NoEventId}, session_id : SessionIds,
     agent_type : AgentTypes, event_type : EventTypes]

\* The part of an ingested payload that `last` keeps.
Input(p) ==
    [event_id |-> p.event_id, session_id |-> p.session_id, event_type |-> p.event_type]

NoPayload == [event_id |-> NoEventId, session_id |-> "", event_type |-> ""]

\* What `last` records: the operation, the payload of an ingest, whether
\* insertEvent returned a row (created) or null (duplicate), the number of
\* duplicates of a batch, the status the payload's session had before the
\* ingest, the number of rows a sweep changed, and the HTTP status of the
\* response.  The other fields are set by the operations they belong to:
\* the messages the operation handed to broadcast, the client of a stream
\* operation, the state its connection was in, the outcome of validation of
\* each item, the inserted count and the rejected indices of a batch, and
\* the source and client_timestamp of an imported event, and the statement
\* at which a store write failed.  For the functions that are applied to
\* one input, metadata is the input and stored the result; body is a request
\* body, coerced what coerceJsonLikeBody made of it, and core and layers
\* say how the body was built; query holds the filters of a read, page the
\* rows it returned and total the count it reported; lastValues is the
\* last-value map of the OTLP metric parser and series the data points it
\* has converted; snapshot is the store as it was when a batch transaction
\* began, items the valid items of that batch and pending those not yet
\* inserted.
Op(op, payload, created, duplicates, pre, idled, code) ==
    [op |-> op, payload |-> payload, created |-> created, duplicates |-> duplicates,
     pre |-> pre, idled |-> idled, code |-> code,
     published |-> <<>>, client |-> "", was |-> "none",
     valid |-> <<>>, received |-> 0, rejected |-> {},
     source |-> "api", client_timestamp |-> 0, failed |-> "",
     metadata |-> <<>>, stored |-> <<>>,
     body |-> <<>>, core |-> <<>>, layers |-> <<>>, coerced |-> <<>>,
     query |-> <<>>, page |-> {}, total |-> 0,
     lastValues |-> <<>>, series |-> <<>>,
     snapshot |-> <<>>, items |-> <<>>, pending |-> <<>>]

StatusOf(S, id) == IF id \in DOMAIN S THEN S[id].status ELSE "none"

\* ---------------------------------------------------------------- process

\* The process when server.ts has run: the store is open (initSchema), the
\* server listens, and the stats broadcast and the session checker are
\* scheduled.
Started ==
    [db |-> TRUE, listening |-> TRUE, statsBroadcast |-> TRUE, sessionChecker |-> TRUE,
     signalled |-> FALSE, exited |-> FALSE, exit_code |-> 0]

\* shutdown: clearInterval(sessionChecker) and server.close, which stops
\* the listener at once and calls back when every connection has ended.
shutdown(P) ==
    [P EXCEPT !.signalled = TRUE, !.sessionChecker = FALSE, !.listening = FALSE]

\* ----------------------------------------------------------------- agents

AgentId(agentType) == agentType \o "-default"

\* An upsertAgent that registers no agent.
upsertAgentNever(A, id, agentType, t) == A

upsertAgent(A, id, agentType, t) ==
    IF id \in DOMAIN A
    THEN [A EXCEPT ![id].last_seen_at = t]
    ELSE A @@ (id :> [agent_type |-> agentType, registered_at |-> t, last_seen_at |-> t])

\* --------------------------------------------------------------- sessions

\* upsertSession whose ON CONFLICT branch refreshes last_event_at only.
upsertSessionKeepStatus(S, id, agentId, agentType, t) ==
    IF id \in DOMAIN S
    THEN [S EXCEPT ![id].last_event_at = t]
    ELSE S @@ (id :> [agent_id |-> agentId, agent_type |-> agentType,
                      status |-> "active", started_at |-> t,
                      ended_at |-> NULL, last_event_at |-> t])

upsertSession(S, id, agentId, agentType, t) ==
    IF id \in DOMAIN S
    THEN [S EXCEPT ![id].last_event_at = t,
                   ![id].status = IF S[id].status = "ended" THEN "ended" ELSE "active"]
    ELSE S @@ (id :> [agent_id |-> agentId, agent_type |-> agentType,
                      status |-> "active", started_at |-> t,
                      ended_at |-> NULL, last_event_at |-> t])

\* endSession that stamps ended_at and leaves the status.
endSessionStampOnly(S, id, t) ==
    IF id \in DOMAIN S
    THEN [S EXCEPT ![id].ended_at = <<t>>]
    ELSE S

endSession(S, id, t) ==
    IF id \in DOMAIN S
    THEN [S EXCEPT ![id].status = "ended", ![id].ended_at = <<t>>]
    ELSE S

\* IdleMatch without the cutoff.
IdleMatchAll(S, t, timeoutMinutes) == {id \in DOMAIN S : S[id].status = "active"}

\* IdleMatch with the cutoff one timeout too far in the past.
IdleMatchLate(S, t, timeoutMinutes) ==
    {id \in DOMAIN S :
        S[id].status = "active" /\ S[id].last_event_at < t - 2 * timeoutMinutes}

\* The rows the UPDATE of updateIdleSessions matches.
IdleMatch(S, t, timeoutMinutes) ==
    {id \in DOMAIN S :
        S[id].status = "active" /\ S[id].last_event_at < t - timeoutMinutes}

updateIdleSessions(S, t, timeoutMinutes) ==
    [id \in DOMAIN S |->
        IF id \in IdleMatch(S, t, timeoutMinutes)
        THEN [S[id] EXCEPT !.status = "idle"]
        ELSE S[id]]

\* ------------------------------------------------------------------ reads

\* The page size of getSessions and getEvents when no limit is given.
DefaultLimit == 50

\* The limit of a read: <<>> where the caller gives none.
NoLimit == <<>>

\* filters.limit || 50 takes the default also for 0.
LimitOrDefault(limit) == IF limit = NoLimit \/ limit = <<0>> THEN DefaultLimit ELSE limit[1]

\* CASE s.status WHEN 'active' THEN 0 WHEN 'idle' THEN 1 ELSE 2 END.
StatusRank(status) == IF status = "active" THEN 0 ELSE IF status = "idle" THEN 1 ELSE 2

\* ORDER BY of getSessions: row a comes before row b; rows that tie come in
\* the order of the table.
SessionBefore(S, a, b) ==
    \/ StatusRank(S[a].status) < StatusRank(S[b].status)
    \/ /\ StatusRank(S[a].status) = StatusRank(S[b].status)
       /\ \/ S[a].last_event_at > S[b].last_event_at
          \/ S[a].last_event_at = S[b].last_event_at /\ a < b

\* getSessions: the rows of the page, each with the status of its row;
\* their order is that of SessionBefore.
getSessions(S, f) ==
    LET match == {id \in DOMAIN S :
                    /\ f.status = "" \/ S[id].status = f.status
                    /\ f.agentType = "" \/ S[id].agent_type = f.agentType}
        limit == LimitOrDefault(f.limit)
    IN  {[id |-> id, status |-> S[id].status] :
            id \in {a \in match :
                       Cardinality({b \in match : SessionBefore(S, b, a)}) < limit}}

\* getEvents: total and the rows of the page, newest first; created_at
\* grows with the rowid.
getEvents(E, f) ==
    LET match == {i \in DOMAIN E :
                    f.sessionId = "" \/ E[i].session_id = f.sessionId}
        limit == LimitOrDefault(f.limit)
    IN  [total |-> Cardinality(match),
         events |-> {a \in match :
                       /\ Cardinality({b \in match : b > a}) >= f.offset
                       /\ Cardinality({b \in match : b > a}) < f.offset + limit}]

\* ----------------------------------------------------------------- events

\* An events row: the columns event_id, session_id and event_type.
EventRow(p) ==
    [event_id |-> p.event_id, session_id |-> p.session_id, event_type |-> p.event_type]

\* A UNIQUE constraint under which one NULL conflicts with another.
UniqueViolationNulls(E, eventId) == \E i \in DOMAIN E : E[i].event_id = eventId

\* The events table without the UNIQUE constraint.
UniqueViolationNever(E, eventId) == FALSE

\* The UNIQUE constraint on events.event_id; NULLs never conflict.
UniqueViolation(E, eventId) ==
    /\ eventId # NoEventId
    /\ \E i \in DOMAIN E : E[i].event_id = eventId

\* An insertEvent whose INSERT replaces the row that holds the event_id.
insertEventReplace(st, p, t) ==
    LET agentId == AgentId(p.agent_type)
        A1 == upsertAgent(st.agents, agentId, p.agent_type, t)
        S1 == upsertSession(st.sessions, p.session_id, agentId, p.agent_type, t)
        S2 == IF p.event_type = "session_end" THEN endSession(S1, p.session_id, t) ELSE S1
    IN  IF UniqueViolationNulls(st.events, p.event_id) /\ p.event_id # NoEventId
        THEN [agents |-> A1, sessions |-> S2,
              events |-> [i \in DOMAIN st.events |->
                            IF st.events[i].event_id = p.event_id
                            THEN EventRow(p)
                            ELSE st.events[i]],
              created |-> FALSE]
        ELSE [agents |-> A1, sessions |-> S2,
              events |-> Append(st.events, EventRow(p)), created |-> TRUE]

\* insertEvent on the store [agents, sessions, events] at time t; `created`
\* is FALSE where the function returns null.
insertEvent(st, p, t) ==
    LET agentId == AgentId(p.agent_type)
        A1 == upsertAgent(st.agents, agentId, p.agent_type, t)
        S1 == upsertSession(st.sessions, p.session_id, agentId, p.agent_type, t)
        S2 == IF p.event_type = "session_end" THEN endSession(S1, p.session_id, t) ELSE S1
    IN  IF UniqueViolation(st.events, p.event_id)
        THEN [agents |-> A1, sessions |-> S2, events |-> st.events, created |-> FALSE]
        ELSE [agents |-> A1, sessions |-> S2,
              events |-> Append(st.events, EventRow(p)), created |-> TRUE]

\* The statements of insertEvent that write to the store, in the order in
\* which they run.
Statements == <<"upsertAgent", "upsertSession", "endSession", "insert">>

\* insertEvent in which statement number `at` throws an error that is not a
\* UNIQUE violation (an I/O error, a failed CHECK): the function runs outside
\* any transaction, so the statements before it stay applied.
insertEventThrows(st, p, t, at) ==
    LET agentId == AgentId(p.agent_type)
        A1 == IF at > 1 THEN upsertAgent(st.agents, agentId, p.agent_type, t) ELSE st.agents
        S1 == IF at > 2
              THEN upsertSession(st.sessions, p.session_id, agentId, p.agent_type, t)
              ELSE st.sessions
        S2 == IF at > 3 /\ p.event_type = "session_end"
              THEN endSession(S1, p.session_id, t)
              ELSE S1
    IN  [agents |-> A1, sessions |-> S2, events |-> st.events, created |-> FALSE]

\* --------------------------------------------------------------- metadata

\* A text is a sequence of runs: n characters of w bytes each in UTF-8.  Two
\* neighbouring runs of a text differ in w.
Run(w, n) == [w |-> w, n |-> n]

\* A text of n one-byte characters.
Ascii(n) == IF n > 0 THEN <<Run(1, n)>> ELSE <<>>

\* String concatenation.
Cat(a, b) ==
    IF a = <<>> THEN b
    ELSE IF b = <<>> THEN a
    ELSE IF a[Len(a)].w = b[1].w
         THEN SubSeq(a, 1, Len(a) - 1)
                \o <<Run(b[1].w, a[Len(a)].n + b[1].n)>>
                \o SubSeq(b, 2, Len(b))
         ELSE a \o b

\* Buffer.byteLength(text, 'utf8').
RECURSIVE byteLength(_)
byteLength(text) ==
    IF text = <<>> THEN 0 ELSE Head(text).w * Head(text).n + byteLength(Tail(text))

\* A slice that counts characters where it should count bytes.
RECURSIVE utf8SliceByChars(_, _)
utf8SliceByChars(input, maxBytes) ==
    IF maxBytes <= 0 \/ input = <<>>
    THEN <<>>
    ELSE IF maxBytes >= Head(input).n
         THEN Cat(<<Head(input)>>, utf8SliceByChars(Tail(input), maxBytes - Head(input).n))
         ELSE <<Run(Head(input).w, maxBytes)>>

\* utf8SliceByBytes: the characters of input, in order, up to the first one
\* that does not fit into maxBytes bytes.
RECURSIVE utf8SliceByBytes(_, _)
utf8SliceByBytes(input, maxBytes) ==
    IF maxBytes <= 0 \/ input = <<>>
    THEN <<>>
    ELSE LET r == Head(input)
             fit == maxBytes \div r.w
         IN  IF fit >= r.n
             THEN Cat(<<r>>, utf8SliceByBytes(Tail(input), maxBytes - r.w * r.n))
             ELSE IF fit > 0 THEN <<Run(r.w, fit)>> ELSE <<>>

\* JSON values: a string with its text, true, and a number.
JsonString(text) == [kind |-> "string", text |-> text, n |-> 0]

JsonTrue == [kind |-> "true", text |-> <<>>, n |-> 0]

JsonNumber(n) == [kind |-> "number", text |-> <<>>, n |-> n]

\* The number of decimal digits of a natural number.
RECURSIVE Digits(_)
Digits(n) == IF n < 10 THEN 1 ELSE 1 + Digits(n \div 10)

\* JSON.stringify of a value; the strings of the model hold no character
\* that JSON escapes.
ValueText(v) ==
    CASE v.kind = "string" -> Cat(Ascii(1), Cat(v.text, Ascii(1)))
      [] v.kind = "true" -> Ascii(4)
      [] v.kind = "number" -> Ascii(Digits(v.n))

\* The members of an object, a sequence of [key, value] in insertion order,
\* as JSON: "key":value, separated by commas.
RECURSIVE MembersText(_)
MembersText(members) ==
    IF members = <<>>
    THEN <<>>
    ELSE Cat(Cat(Ascii(Len(Head(members).key) + 3), ValueText(Head(members).value)),
             IF Len(members) > 1
             THEN Cat(Ascii(1), MembersText(Tail(members)))
             ELSE <<>>)

\* Metadata: a string, an object with its members, or an array with its
\* JSON text.
StringMetadata(text) == [kind |-> "string", text |-> text, members |-> <<>>]

ObjectMetadata(members) == [kind |-> "object", text |-> <<>>, members |-> members]

ArrayMetadata(text) == [kind |-> "array", text |-> text, members |-> <<>>]

\* safeJsonStringify of metadata that is not a string.
safeJsonStringify(metadata) ==
    IF metadata.kind = "object"
    THEN Cat(Ascii(1), Cat(MembersText(metadata.members), Ascii(1)))
    ELSE metadata.text

METADATA_PRIORITY_KEYS ==
    <<"command", "file_path", "query", "pattern", "error", "message", "tool_name",
      "path", "type">>

\* hasOwnProperty and the value of a key of an object.
HasKey(members, key) == \E i \in DOMAIN members : members[i].key = key

ValueOf(members, key) ==
    members[CHOOSE i \in DOMAIN members : members[i].key = key].value

\* The members the loop over the first k priority keys has added.
RECURSIVE PriorityMembers(_, _)
PriorityMembers(members, k) ==
    IF k = 0
    THEN <<>>
    ELSE PriorityMembers(members, k - 1)
            \o (IF HasKey(members, METADATA_PRIORITY_KEYS[k])
                THEN <<[key |-> METADATA_PRIORITY_KEYS[k],
                        value |-> ValueOf(members, METADATA_PRIORITY_KEYS[k])]>>
                ELSE <<>>)

buildTruncatedGenericSummary(originalBytes) ==
    safeJsonStringify(ObjectMetadata(
        <<[key |-> "_truncated", value |-> JsonTrue],
          [key |-> "_original_bytes", value |-> JsonNumber(originalBytes)]>>))

\* An object summary that keeps no priority key.
buildTruncatedObjectSummaryBare(metadata, originalBytes) ==
    buildTruncatedGenericSummary(originalBytes)

buildTruncatedObjectSummary(metadata, originalBytes) ==
    safeJsonStringify(ObjectMetadata(
        <<[key |-> "_truncated", value |-> JsonTrue],
          [key |-> "_original_bytes", value |-> JsonNumber(originalBytes)]>>
        \o PriorityMembers(metadata.members, Len(METADATA_PRIORITY_KEYS))))

\* The number of bytes of a kilobyte of config.maxPayloadKB.
BytesPerKB == 1024

\* maxBytes of truncateMetadata.
maxBytes == IF MaxPayloadKB * BytesPerKB > 0 THEN MaxPayloadKB * BytesPerKB ELSE 0

\* truncateMetadata: the value of the metadata column and whether
\* payload_truncated is set.
truncateMetadata(metadata) ==
    IF metadata.kind = "string"
    THEN IF byteLength(metadata.text) <= maxBytes
         THEN [value |-> metadata.text, truncated |-> FALSE]
         ELSE [value |-> utf8SliceByBytes(metadata.text, maxBytes), truncated |-> TRUE]
    ELSE LET serialized == safeJsonStringify(metadata)
             summary == IF metadata.kind = "object"
                        THEN buildTruncatedObjectSummary(metadata, byteLength(serialized))
                        ELSE buildTruncatedGenericSummary(byteLength(serialized))
         IN  IF byteLength(serialized) <= maxBytes
             THEN [value |-> serialized, truncated |-> FALSE]
             ELSE IF byteLength(summary) <= maxBytes
                  THEN [value |-> summary, truncated |-> TRUE]
                  ELSE [value |-> utf8SliceByBytes(summary, maxBytes), truncated |-> TRUE]

\* ------------------------------------------------------------ request body

\* The text of a request body is a sequence of characters.  A quote comes
\* with its escape level k: it is preceded by 2^k - 1 backslashes, so level 0
\* is a bare quote and JSON string encoding raises the level by one.
Char(c) == [c |-> c, k |-> 0]

Quote(k) == [c |-> "quote", k |-> k]

\* The 2^k - 1 backslashes that are left of a quote of level k >= 1 when the
\* quote character itself is cut off.
Backslashes(k) == [c |-> "backslashes", k |-> k]

Space == Char(" ")

\* The body of a valid event, an object without the required fields, an
\* array, a number and a word.
EventText == <<Char("{"), Quote(0), Char("session_id"), Quote(0), Char(":"), Char("}")>>

EmptyObjectText == <<Char("{"), Char("}")>>

ArrayText == <<Char("["), Char("]")>>

NumberText == <<Char("1")>>

WordText == <<Char("just"), Space, Char("a"), Space, Char("string")>>

\* String.prototype.trim.
RECURSIVE trim(_)
trim(text) ==
    IF text = <<>> THEN <<>>
    ELSE IF Head(text) = Space THEN trim(Tail(text))
    ELSE IF text[Len(text)] = Space THEN trim(SubSeq(text, 1, Len(text) - 1))
    ELSE text

\* JSON.stringify of a string: quotes around it, every quote in it escaped.
JsonEncode(text) ==
    <<Quote(0)>>
        \o [i \in DOMAIN text |->
               IF text[i].c = "quote" THEN Quote(text[i].k + 1) ELSE text[i]]
        \o <<Quote(0)>>

\* The value of a JSON string literal's content: every escape undone.
JsonDecode(content) ==
    [i \in DOMAIN content |->
        IF content[i].c = "quote" THEN Quote(content[i].k - 1) ELSE content[i]]

\* A JSON value: its type and, for a string, its text; for the others the
\* JSON text it was parsed from.
Value(kind, text) == [kind |-> kind, text |-> text]

\* tryParseJson: JSON.parse, which skips white space around the value.
tryParseJson(input) ==
    LET t == trim(input)
        content == SubSeq(t, 2, Len(t) - 1)
    IN  IF /\ Len(t) >= 2
           /\ t[1] = Quote(0)
           /\ t[Len(t)] = Quote(0)
           /\ \A i \in DOMAIN content :
                 /\ content[i] # Quote(0)
                 /\ content[i].c # "backslashes"
        THEN [ok |-> TRUE, value |-> Value("string", JsonDecode(content))]
        ELSE IF t \in {EventText, EmptyObjectText}
        THEN [ok |-> TRUE, value |-> Value("object", t)]
        ELSE IF t = ArrayText
        THEN [ok |-> TRUE, value |-> Value("array", t)]
        ELSE IF t = NumberText
        THEN [ok |-> TRUE, value |-> Value("number", t)]
        ELSE [ok |-> FALSE, value |-> Value("none", <<>>)]

\* isQuoted: the first and the last character are quote characters; the
\* last character of an escaped quote is one too.
isQuoted(input) ==
    /\ Len(input) >= 2
    /\ input[1] = Quote(0)
    /\ input[Len(input)].c = "quote"

\* input.slice(1, -1) of a quoted input.
sliceQuotes(input) ==
    SubSeq(input, 2, Len(input) - 1)
        \o (IF input[Len(input)].k > 0
            THEN <<Backslashes(input[Len(input)].k)>>
            ELSE <<>>)

\* A looksLikeJson that no text passes.
looksLikeJsonNever(input) == FALSE

looksLikeJson(input) == input # <<>> /\ input[1] \in {Char("{"), Char("[")}

\* The number of rounds of the loop of coerceJsonLikeBody.
CoerceRounds == 3

\* The loop of coerceJsonLikeBody from round i on.
RECURSIVE coerceFrom(_, _, _)
coerceFrom(body, candidate, i) ==
    IF i >= CoerceRounds
    THEN body
    ELSE LET parsed == tryParseJson(candidate)
         IN  IF parsed.ok
             THEN IF /\ parsed.value.kind = "string"
                     /\ looksLikeJson(trim(parsed.value.text))
                  THEN coerceFrom(body, trim(parsed.value.text), i + 1)
                  ELSE parsed.value
             ELSE IF isQuoted(candidate)
                  THEN coerceFrom(body, trim(sliceQuotes(candidate)), i + 1)
                  ELSE body

coerceJsonLikeBody(body) ==
    IF body.kind # "string"
    THEN body
    ELSE IF trim(body.text) = <<>>
    THEN body
    ELSE coerceFrom(body, trim(body.text), 0)

\* -------------------------------------------------------------------- SSE

\* A connection is "none" while its client is not connected, "open" while
\* writes reach the client, "full" while the client does not read and the
\* socket buffer is full (res.write returns false and the runtime queues the
\* frame), "dead" once the peer is gone without the server knowing, and
\* "broken" once a write has failed on it: the runtime has destroyed the
\* socket and the response's close event is due.
ConnStates == {"none", "open", "full", "dead", "broken"}

\* An SSE message of a type with its payload; the heartbeat comment and the
\* connected message carry no payload fields.
Frame(type, payload) == [type |-> type, payload |-> payload]

NoFields == [id |-> 0, agent_type |-> Absent, event_type |-> Absent]

\* The payload of an event message: the inserted row, id the rowid.
EventPayload(p, id) == [id |-> id, agent_type |-> p.agent_type, event_type |-> p.event_type]

\* A response stream that hands the newest frame to the client first.
WriteFirst(log, frame) == IF Len(log) < MaxFrames THEN <<frame>> \o log ELSE log

\* The stream of a response after res.write(frame).
Write(log, frame) == IF Len(log) < MaxFrames THEN Append(log, frame) ELSE log

\* res.write on a connection in state k: the frame joins the stream unless
\* the connection is gone.
Sent(log, k, frame) == IF k \in {"open", "full"} THEN Write(log, frame) ELSE log

\* The connection after a write: a write to a dead peer fails (broken pipe).
Written(k) == IF k = "dead" THEN "broken" ELSE k

\* The filter test that lets a payload without the filtered field pass.
SkippedIfPresent(f, payload) ==
    \/ f.agentType # "" /\ payload.agent_type # Absent /\ payload.agent_type # f.agentType
    \/ f.eventType # "" /\ payload.event_type # Absent /\ payload.event_type # f.eventType

\* The filter test of broadcast: the client is passed over (continue).
Skipped(f, payload) ==
    \/ f.agentType # "" /\ payload.agent_type # f.agentType
    \/ f.eventType # "" /\ payload.event_type # f.eventType

\* The streams and connections of the subscribers.
Hub == [frames |-> frames, conn |-> conn]

\* SSEBroadcaster.broadcast on hub H with registry C and filters Fl: one
\* frame to every client of the registry that the filters do not pass over.
broadcast(H, C, Fl, type, payload) ==
    [frames |-> [c \in ClientIds |->
                    IF c \in C /\ ~Skipped(Fl[c], payload)
                    THEN Sent(H.frames[c], H.conn[c], Frame(type, payload))
                    ELSE H.frames[c]],
     conn |-> [c \in ClientIds |->
                    IF c \in C /\ ~Skipped(Fl[c], payload)
                    THEN Written(H.conn[c])
                    ELSE H.conn[c]]]

\* A stream that the connected message is not written to.
ConnectedNever(log) == log

\* addClient: the connected message, written before the client is registered.
Connected(log) == Write(log, Frame("connected", NoFields))

\* A close handler that leaves the heartbeat interval running.
clearIntervalNever(T, c) == T

\* clearInterval(heartbeat) of the close handler.
clearInterval(T, c) == T \ {c}

\* A close handler that leaves the client in the registry.
deleteClientNever(C, c) == C

\* this.clients.delete(client) of the close handler.
deleteClient(C, c) == C \ {c}

\* GET /api/health: sse_clients.
\* A clientCount that sees no subscriber.
clientCountNone(C) == 0

clientCount(C) == Cardinality(C)

\* ---------------------------------------------------------------- actions

Init ==
    /\ now = 0
    /\ agents = <<>>
    /\ sessions = <<>>
    /\ events = <<>>
    /\ clients = {}
    /\ frames = [c \in ClientIds |-> <<>>]
    /\ filters = [c \in ClientIds |-> NoFilter]
    /\ heartbeats = {}
    /\ conn = [c \in ClientIds |-> "none"]
    /\ submitted = {}
    /\ proc = Started
    /\ last = Op("init", NoPayload, FALSE, 0, "none", 0, 0)

\* A timestamp one minute further in the past; minute 0 stands for every
\* time at least MaxTime minutes ago.
Older(t) == IF t > 0 THEN t - 1 ELSE 0

OlderSessions(S) ==
    [id \in DOMAIN S |->
        [S[id] EXCEPT !.started_at = Older(@),
                      !.last_event_at = Older(@),
                      !.ended_at = IF @ = NULL THEN NULL ELSE <<Older(@[1])>>]]

OlderAgents(A) ==
    [id \in DOMAIN A |->
        [A[id] EXCEPT !.registered_at = Older(@), !.last_seen_at = Older(@)]]

\* One minute passes.  The clock counts up to MaxTime; from then on `now`
\* stays MaxTime and every stored timestamp moves one minute into the past
\* instead, so that the clock never stops.
Tick ==
    /\ IF now < MaxTime
       THEN now' = now + 1 /\ UNCHANGED <<agents, sessions>>
       ELSE /\ now' = now
            /\ agents' = OlderAgents(agents)
            /\ sessions' = OlderSessions(sessions)
    /\ last' = Op("tick", NoPayload, FALSE, 0, "none", 0, 0)
    /\ UNCHANGED <<proc, events, clients, frames, filters, heartbeats, conn, submitted>>

Store == [agents |-> agents, sessions |-> sessions, events |-> events]

\* An ingest route that publishes the event message only.
PublicationsEventOnly(created, pre, post, p, id) ==
    IF created THEN <<Frame("event", EventPayload(p, id))>> ELSE <<>>

\* An ingest route that publishes a session_update for every change of
\* status, whether or not the event was created.
PublicationsOnChange(created, pre, post, p, id) ==
    (IF created THEN <<Frame("event", EventPayload(p, id))>> ELSE <<>>)
        \o (IF pre # post THEN <<Frame("session_update", NoFields)>> ELSE <<>>)

\* The messages the ingest route publishes for one payload: on a created
\* event the event message and, where the status of the session changed
\* (pre to post, "none" for a session without row), one session_update.
Publications(created, pre, post, p, id) ==
    IF created
    THEN <<Frame("event", EventPayload(p, id))>>
            \o (IF pre # post THEN <<Frame("session_update", NoFields)>> ELSE <<>>)
    ELSE <<>>

\* broadcast for each message of a sequence, in order.
RECURSIVE publishAll(_, _, _, _)
publishAll(H, C, Fl, msgs) ==
    IF msgs = <<>>
    THEN H
    ELSE publishAll(broadcast(H, C, Fl, Head(msgs).type, Head(msgs).payload),
                    C, Fl, Tail(msgs))

\* POST /api/events with a valid payload of the set P, a source tag of Src
\* and a client_timestamp that lies one of Ages minutes back: one call of
\* insertEvent, which takes neither the source tag nor the age into account,
\* and the messages of the route.
IngestFrom(P, Src, Ages) ==
    \E p \in P, src \in Src, age \in Ages : \E r \in {insertEvent(Store, p, now)} :
        LET msgs == Publications(r.created, StatusOf(sessions, p.session_id),
                                 StatusOf(r.sessions, p.session_id), p, Len(r.events))
            H == publishAll(Hub, clients, filters, msgs)
        IN  /\ Len(r.events) <= MaxEvents
            /\ agents' = r.agents
            /\ sessions' = r.sessions
            /\ events' = r.events
            /\ frames' = H.frames
            /\ conn' = H.conn
            /\ submitted' = submitted \cup ({p.event_id} \ {NoEventId})
            /\ last' = [Op("ingest", Input(p), r.created, IF r.created THEN 0 ELSE 1,
                           StatusOf(sessions, p.session_id), 0,
                           IF r.created THEN 201 ELSE 200)
                          EXCEPT !.published = msgs, !.source = src,
                                 !.client_timestamp = now - age]
            /\ UNCHANGED <<proc, now, clients, filters, heartbeats>>

\* POST /api/events by a live client.
IngestOf(P) == IngestFrom(P, {"api"}, {0})

Ingest == IngestOf(Payloads)

\* The events of the lifecycle: those of session s1 that carry one event_id
\* or none, and those of session s2 that carry none.
LifePayloads ==
    {p \in Payloads :
        \/ p.session_id = "s1" /\ p.event_id \in {"e1", NoEventId}
        \/ p.session_id = "s2" /\ p.event_id = NoEventId}

IngestOne == IngestOf(LifePayloads)

\* POST /api/events in which a store write of insertEvent fails: the error
\* leaves insertEvent and the request is answered with 500.
IngestFails ==
    \E p \in LifePayloads, at \in DOMAIN Statements :
        \E r \in {insertEventThrows(Store, p, now, at)} :
            /\ (Statements[at] = "endSession") => p.event_type = "session_end"
            /\ agents' = r.agents
            /\ sessions' = r.sessions
            /\ events' = r.events
            /\ last' = [Op("ingest", Input(p), FALSE, 0, StatusOf(sessions, p.session_id),
                           0, 500)
                          EXCEPT !.failed = Statements[at]]
            /\ UNCHANGED <<proc, now, clients, frames, filters, heartbeats, conn, submitted>>

\* Ingest of events that carry no event_id, by one session.
IngestLive == IngestOf({p \in Payloads : p.event_id = NoEventId /\ p.session_id = "s1"})

\* The events of the importer: without event_id, stamped now or two
\* thresholds back.
ImportPayloads == {p \in Payloads : p.event_id = NoEventId}

IngestImport == IngestFrom(ImportPayloads, {"import"}, {0, 2 * HistoricalMinutes})

\* insertEvent for each item of a batch, in order.
RECURSIVE insertAll(_, _, _)
insertAll(st, items, t) ==
    IF items = <<>>
    THEN [agents |-> st.agents, sessions |-> st.sessions, events |-> st.events,
          received |-> 0, duplicates |-> 0]
    ELSE LET r == insertEvent(st, Head(items), t)
             rest == insertAll(r, Tail(items), t)
         IN  [rest EXCEPT !.received = @ + (IF r.created THEN 1 ELSE 0),
                          !.duplicates = @ + (IF r.created THEN 0 ELSE 1)]

\* The items of the batches: tool_use events of one session, with and
\* without event_id.
BatchPayloads ==
    {p \in Payloads :
        p.session_id = "s1" /\ p.event_type = "tool_use" /\ p.event_id \in {"e1", NoEventId}}

\* An item that fails validation: its session_id is empty.
InvalidItem ==
    [event_id |-> NoEventId, session_id |-> "", agent_type |-> "claude_code",
     event_type |-> "tool_use"]

BatchItems == BatchPayloads \cup {InvalidItem}

Batches == UNION {[1..n -> BatchItems] : n \in 1..MaxBatch}

\* A validation that lets every payload pass.
ValidAlways(p) == TRUE

\* The validation of one item: the required fields of the event contract.
Valid(p) == p.session_id # "" /\ p.agent_type # "" /\ p.event_type \in EventTypes

\* Single payloads that fail validation: an event_type outside the enum, and
\* an empty session_id.
InvalidPayloads ==
    {[event_id |-> NoEventId, session_id |-> "s1", agent_type |-> "claude_code",
      event_type |-> "unknown_type"],
     InvalidItem}

\* POST /api/events with a payload that validation rejects: the request is
\* answered with 400 before insertEvent is called.
IngestInvalid ==
    \E p \in InvalidPayloads :
        /\ ~Valid(p)
        /\ last' = Op("ingest", Input(p), FALSE, 0, StatusOf(sessions, p.session_id), 0, 400)
        /\ UNCHANGED <<proc, now, agents, sessions, events, clients, frames, filters, heartbeats,
                       conn, submitted>>

\* A rejected list that names the position after the failing item.
RejectedOneBased(items) == {i : i \in {j \in DOMAIN items : ~Valid(items[j])}}

\* The index values of the rejected list: the zero-based positions of the
\* items that fail validation.
Rejected(items) == {i - 1 : i \in {j \in DOMAIN items : ~Valid(items[j])}}

\* POST /api/events/batch with a well-formed envelope: the items that pass
\* validation are inserted in order, the others are reported as rejected.
IngestBatch ==
    \E items \in Batches :
        \E valid \in {SelectSeq(items, Valid)} :
            \E r \in {insertAll(Store, valid, now)} :
                /\ Len(r.events) <= MaxEvents
                /\ agents' = r.agents
                /\ sessions' = r.sessions
                /\ events' = r.events
                /\ submitted' = submitted
                                  \cup ({valid[i].event_id : i \in DOMAIN valid} \ {NoEventId})
                /\ last' = [Op("batch", NoPayload, r.received > 0, r.duplicates, "none", 0, 201)
                              EXCEPT !.valid = [i \in DOMAIN items |-> Valid(items[i])],
                                     !.received = r.received,
                                     !.rejected = Rejected(items)]
                /\ UNCHANGED <<proc, now, clients, frames, filters, heartbeats, conn>>

\* The session timeout checker of server.ts.
Sweep ==
    LET idled == Cardinality(IdleMatch(sessions, now, SessionTimeoutMinutes))
        msgs == IF idled > 0 /\ clientCount(clients) > 0
                THEN <<Frame("session_update", NoFields)>>
                ELSE <<>>
        H == publishAll(Hub, clients, filters, msgs)
    IN  /\ sessions' = updateIdleSessions(sessions, now, SessionTimeoutMinutes)
        /\ frames' = H.frames
        /\ conn' = H.conn
        /\ last' = [Op("sweep", NoPayload, FALSE, 0, "none", idled, 0)
                      EXCEPT !.published = msgs]
        /\ UNCHANGED <<proc, now, agents, events, clients, filters, heartbeats, submitted>>

\* GET /api/stream with filters of the set Fs: SSEBroadcaster.addClient.
SubscribeOf(Fs) ==
    \E c \in ClientIds \ clients, f \in Fs :
        /\ frames' = [frames EXCEPT ![c] = Connected(<<>>)]
        /\ clients' = clients \cup {c}
        /\ filters' = [filters EXCEPT ![c] = f]
        /\ heartbeats' = heartbeats \cup {c}
        /\ conn' = [conn EXCEPT ![c] = "open"]
        /\ last' = [Op("subscribe", NoPayload, FALSE, 0, "none", 0, 200)
                      EXCEPT !.client = c]
        /\ UNCHANGED <<proc, now, agents, sessions, events, submitted>>

\* A subscriber without filters.
Subscribe == SubscribeOf({NoFilter})

\* A subscriber with any filters.
SubscribeFiltered == SubscribeOf(Filters)

\* The heartbeat interval of one client fires.
Heartbeat ==
    \E c \in heartbeats :
        /\ frames' = [frames EXCEPT ![c] = Sent(frames[c], conn[c], Frame("heartbeat", NoFields))]
        /\ conn' = [conn EXCEPT ![c] = Written(conn[c])]
        /\ last' = [Op("heartbeat", NoPayload, FALSE, 0, "none", 0, 0)
                      EXCEPT !.client = c, !.was = conn[c]]
        /\ UNCHANGED <<proc, now, agents, sessions, events, clients, filters, heartbeats, submitted>>

\* res.on('close') for client c: the response of c has closed, because the
\* client closed or aborted the request or because a write failed on the
\* connection.  The interval is cleared and the client leaves the registry.
CloseOf(c) ==
    /\ c \in clients
    /\ conn[c] \in {"open", "full", "broken"}
    /\ heartbeats' = clearInterval(heartbeats, c)
    /\ clients' = deleteClient(clients, c)
    /\ frames' = [frames EXCEPT ![c] = <<>>]
    /\ filters' = [filters EXCEPT ![c] = NoFilter]
    /\ conn' = [conn EXCEPT ![c] = "none"]
    /\ last' = [Op("close", NoPayload, FALSE, 0, "none", 0, 0)
                  EXCEPT !.client = c, !.was = conn[c]]
    /\ UNCHANGED <<proc, now, agents, sessions, events, submitted>>

Close == \E c \in ClientIds : CloseOf(c)

\* The close event of a connection that a write has failed on.
CloseBroken(c) == conn[c] = "broken" /\ CloseOf(c)

\* The heartbeat interval of client c fires.
HeartbeatOf(c) == Heartbeat /\ last'.client = c

\* A client stops reading: the socket buffer of its connection is full.
Stall ==
    \E c \in clients :
        /\ conn[c] = "open"
        /\ conn' = [conn EXCEPT ![c] = "full"]
        /\ last' = [Op("stall", NoPayload, FALSE, 0, "none", 0, 0) EXCEPT !.client = c]
        /\ UNCHANGED <<proc, now, agents, sessions, events, clients, frames, filters,
                       heartbeats, submitted>>

\* The peer of a connection goes away without closing it.
Die ==
    \E c \in clients :
        /\ conn[c] \in {"open", "full"}
        /\ conn' = [conn EXCEPT ![c] = "dead"]
        /\ last' = [Op("die", NoPayload, FALSE, 0, "none", 0, 0) EXCEPT !.client = c]
        /\ UNCHANGED <<proc, now, agents, sessions, events, clients, frames, filters,
                       heartbeats, submitted>>

\* The events table under single and batch ingest, at one instant.
StoreNext ==
    \/ Ingest
    \/ IngestBatch

StoreSpec == Init /\ [][StoreNext]_vars

\* The session lifecycle: ingest, the clock and the sweeper.
LifeNext ==
    \/ Tick
    \/ IngestOne
    \/ Sweep

LifeSpec == Init /\ [][LifeNext]_vars

\* The sweeper's timer keeps firing and the clock keeps running.
LifeFairSpec == LifeSpec /\ WF_vars(Sweep) /\ WF_vars(Tick)

\* The subscriber registry, with ingest as the publisher.
SseNext ==
    \/ IngestLive
    \/ Subscribe
    \/ Heartbeat
    \/ Close

SseSpec == Init /\ [][SseNext]_vars

\* Subscribers with filters, with ingest as the publisher.
FilterNext ==
    \/ IngestLive
    \/ SubscribeFiltered
    \/ Close

FilterSpec == Init /\ [][FilterNext]_vars

\* Subscribers whose connections stall and die, with ingest as the publisher.
LinkNext ==
    \/ Subscribe
    \/ Heartbeat
    \/ Die
    \/ Close

LinkSpec == Init /\ [][LinkNext]_vars

\* Subscribers that stop reading, with ingest as the publisher.
SlowNext ==
    \/ IngestLive
    \/ Subscribe
    \/ Stall
    \/ Close

SlowSpec == Init /\ [][SlowNext]_vars

\* Every heartbeat interval keeps firing, and the runtime delivers the
\* close event of a connection that a write has failed on.
LinkFairSpec ==
    /\ LinkSpec
    /\ \A c \in ClientIds : WF_vars(HeartbeatOf(c)) /\ WF_vars(CloseBroken(c))

\* Imported events, the clock and the sweeper.
ImportNext ==
    \/ Tick
    \/ IngestImport
    \/ Sweep

ImportSpec == Init /\ [][ImportNext]_vars

\* Single and batch ingest behind validation.
ValidationNext ==
    \/ IngestOne
    \/ IngestInvalid
    \/ IngestBatch

ValidationSpec == Init /\ [][ValidationNext]_vars

\* Ingest with store writes that may fail.
FailNext ==
    \/ IngestOne
    \/ IngestFails

FailSpec == Init /\ [][FailNext]_vars

\* The strings given as metadata: one kind of character at lengths around
\* the cap, and a multi-byte text after zero to three one-byte characters,
\* and one-byte characters after a multi-byte text that does not fit.
StringInputs ==
    {StringMetadata(<<Run(w, n)>>) :
        w \in 1..4,
        n \in {maxBytes \div 4, maxBytes \div 2, maxBytes - 1, maxBytes, maxBytes + 1}}
    \cup {StringMetadata(Cat(Ascii(k), <<Run(3, maxBytes \div 3)>>)) : k \in 0..3}
    \cup {StringMetadata(<<Run(4, maxBytes \div 4 + 1), Run(1, 2)>>)}

\* The values of a member of object metadata: short and long, of one-byte
\* and of four-byte characters.
MemberValues ==
    {JsonString(Ascii(9)), JsonString(<<Run(4, 3)>>),
     JsonString(Ascii(maxBytes)), JsonString(<<Run(4, maxBytes \div 4 + 1)>>)}

\* The members of an object with the keys blob, type and command, each
\* absent or with a value; null metadata is the object without members.
NoMember == [kind |-> "absent", text |-> <<>>, n |-> 0]

MembersOf(blob, type, command) ==
    (IF blob = NoMember THEN <<>> ELSE <<[key |-> "blob", value |-> blob]>>)
    \o (IF type = NoMember THEN <<>> ELSE <<[key |-> "type", value |-> type]>>)
    \o (IF command = NoMember THEN <<>> ELSE <<[key |-> "command", value |-> command]>>)

ObjectInputs ==
    {ObjectMetadata(MembersOf(b, t, c)) :
        b \in MemberValues \cup {NoMember},
        t \in MemberValues \cup {NoMember},
        c \in MemberValues \cup {NoMember}}

ArrayInputs == {ArrayMetadata(Ascii(n)) : n \in {2, maxBytes, maxBytes + 1}}

MetadataInputs == StringInputs \cup ObjectInputs \cup ArrayInputs

\* The state before insertEvent is given a metadata value.
MetaInit ==
    /\ now = 0
    /\ agents = <<>>
    /\ sessions = <<>>
    /\ events = <<>>
    /\ clients = {}
    /\ frames = [c \in ClientIds |-> <<>>]
    /\ filters = [c \in ClientIds |-> NoFilter]
    /\ heartbeats = {}
    /\ conn = [c \in ClientIds |-> "none"]
    /\ submitted = {}
    /\ proc = Started
    /\ \E m \in MetadataInputs :
           last = [Op("metadata", NoPayload, FALSE, 0, "none", 0, 0) EXCEPT !.metadata = m]

\* insertEvent's metadata and payload_truncated columns.
TruncateMetadata ==
    /\ last.op = "metadata"
    /\ \E r \in {truncateMetadata(last.metadata)} :
           last' = [last EXCEPT
                      !.op = "truncateMetadata",
                      !.stored = [metadata |-> r.value,
                                  payload_truncated |-> IF r.truncated THEN 1 ELSE 0]]
    /\ UNCHANGED <<proc, now, agents, sessions, events, clients, frames, filters, heartbeats,
                   conn, submitted>>

MetaNext == TruncateMetadata

MetaSpec == MetaInit /\ [][MetaNext]_vars

\* A client connects to GET /api/stream while the server listens.
Accept == ~proc.exited /\ proc.listening /\ Subscribe

\* A client closes its stream.
Leave == ~proc.exited /\ Close

\* The session checker fires.
SessionCheck == ~proc.exited /\ proc.sessionChecker /\ Sweep

\* The stats broadcast fires: a stats message goes to every subscriber.
StatsBroadcast ==
    LET msgs == IF clientCount(clients) > 0 THEN <<Frame("stats", NoFields)>> ELSE <<>>
        H == publishAll(Hub, clients, filters, msgs)
    IN  /\ ~proc.exited
        /\ proc.statsBroadcast
        /\ frames' = H.frames
        /\ conn' = H.conn
        /\ last' = [Op("stats", NoPayload, FALSE, 0, "none", 0, 0) EXCEPT !.published = msgs]
        /\ UNCHANGED <<proc, now, agents, sessions, events, clients, filters, heartbeats,
                       submitted>>

\* SIGINT or SIGTERM: the handler shutdown runs.
Signal ==
    /\ ~proc.exited
    /\ proc' = shutdown(proc)
    /\ last' = Op("shutdown", NoPayload, FALSE, 0, "none", 0, 0)
    /\ UNCHANGED <<now, agents, sessions, events, clients, frames, filters, heartbeats,
                   conn, submitted>>

\* The callback of server.close: no connection is open any more, and the
\* process exits with code 0.
Exit ==
    /\ proc.signalled
    /\ ~proc.exited
    /\ clients = {}
    /\ proc' = [proc EXCEPT !.exited = TRUE, !.exit_code = 0]
    /\ last' = Op("exit", NoPayload, FALSE, 0, "none", 0, 0)
    /\ UNCHANGED <<now, agents, sessions, events, clients, frames, filters, heartbeats,
                   conn, submitted>>

\* The process from its start to its exit, with subscribers that come and go.
ShutdownNext ==
    \/ Accept
    \/ Leave
    \/ SessionCheck
    \/ StatsBroadcast
    \/ Signal
    \/ Exit

ShutdownSpec == Init /\ [][ShutdownNext]_vars

\* The timers fire again and again and a callback that is due is run;
\* nothing makes a subscriber leave.
ShutdownFairSpec ==
    ShutdownSpec /\ WF_vars(Exit) /\ WF_vars(StatsBroadcast) /\ WF_vars(SessionCheck)

\* Ingest of tool events that carry no event_id, by either session.
IngestTools ==
    IngestOf({p \in Payloads : p.event_id = NoEventId /\ p.event_type = "tool_use"})

\* The idle sweep with subscribers on the stream.
SweepNext ==
    \/ Tick
    \/ IngestTools
    \/ Subscribe
    \/ Sweep

SweepSpec == Init /\ [][SweepNext]_vars

\* The tables that are read: n sessions numbered 1..n that were active, are
\* idle or have ended, in an order that k shifts, and n events of two
\* sessions.
StatusCycle == <<"active", "idle", "ended">>

SessionTable(n, k) ==
    [i \in 1..n |->
        [agent_id |-> AgentId("claude_code"), agent_type |-> "claude_code",
         status |-> StatusCycle[((i + k) % 3) + 1],
         started_at |-> 0,
         ended_at |-> IF StatusCycle[((i + k) % 3) + 1] = "ended" THEN <<MaxTime>> ELSE NULL,
         last_event_at |-> ((i + k) \div 3) % (MaxTime + 1)]]

EventTable(n, k) ==
    [i \in 1..n |->
        [event_id |-> NoEventId,
         session_id |-> IF (i + k) % 2 = 0 THEN "s1" ELSE "s2",
         event_type |-> "tool_use"]]

TableSizes == {0, 1, 2} \cup {DefaultLimit + d : d \in 0..MaxOver}

Limits == {NoLimit, <<0>>, <<1>>, <<DefaultLimit + 1>>}

SessionFilters ==
    [status : {"", "active", "idle", "ended"}, agentType : {"", "claude_code"}, limit : Limits]

EventFilters == [sessionId : {"", "s1"}, offset : {0, 1}, limit : Limits]

\* The store at time MaxTime with its tables filled.
ReadInit ==
    /\ now = MaxTime
    /\ agents = <<>>
    /\ clients = {}
    /\ frames = [c \in ClientIds |-> <<>>]
    /\ filters = [c \in ClientIds |-> NoFilter]
    /\ heartbeats = {}
    /\ conn = [c \in ClientIds |-> "none"]
    /\ submitted = {}
    /\ proc = Started
    /\ last = Op("init", NoPayload, FALSE, 0, "none", 0, 0)
    /\ \E n \in TableSizes, k \in 0..2 :
          /\ sessions = SessionTable(n, k)
          /\ events = EventTable(n, k)

\* GET /api/sessions, as the one read of the tables: a read changes no
\* table, so a second read returns what the first did.
GetSessions ==
    /\ last.op = "init"
    /\ \E f \in SessionFilters : \E r \in {getSessions(sessions, f)} :
        /\ last' = [Op("getSessions", NoPayload, FALSE, 0, "none", 0, 200)
                      EXCEPT !.query = f, !.page = r, !.total = Cardinality(r)]
        /\ UNCHANGED <<proc, now, agents, sessions, events, clients, frames, filters,
                       heartbeats, conn, submitted>>

\* GET /api/events, as the one read of the tables.
GetEvents ==
    /\ last.op = "init"
    /\ \E f \in EventFilters : \E r \in {getEvents(events, f)} :
        /\ last' = [Op("getEvents", NoPayload, FALSE, 0, "none", 0, 200)
                      EXCEPT !.query = f, !.page = r.events, !.total = r.total]
        /\ UNCHANGED <<proc, now, agents, sessions, events, clients, frames, filters,
                       heartbeats, conn, submitted>>

ReadNext ==
    \/ GetSessions
    \/ GetEvents

ReadSpec == ReadInit /\ [][ReadNext]_vars

\* The clock of a running process.
Clock == ~proc.exited /\ Tick

\* The session checker fires and updateIdleSessions throws (the store is
\* busy, locked or broken): nothing catches an error of the interval's
\* callback, so it is an uncaught exception, on which Node ends the
\* process with exit code 1.
SessionCheckThrows ==
    /\ ~proc.exited
    /\ proc.sessionChecker
    /\ proc' = [proc EXCEPT !.exited = TRUE, !.exit_code = 1]
    /\ last' = [Op("sweep", NoPayload, FALSE, 0, "none", 0, 0)
                  EXCEPT !.failed = "updateIdleSessions"]
    /\ UNCHANGED <<now, agents, sessions, events, clients, frames, filters, heartbeats,
                   conn, submitted>>

\* The periodic tasks of a process that serves subscribers, with a session
\* checker that may fail.
TaskNext ==
    \/ Clock
    \/ Accept
    \/ Leave
    \/ SessionCheck
    \/ SessionCheckThrows
    \/ StatsBroadcast

TaskSpec == Init /\ [][TaskNext]_vars

\* What a client wraps around a body: a JSON string encoding, a pair of
\* quotes, or white space.
Layers == {"encode", "quote", "pad"}

RECURSIVE Wrap(_, _)
Wrap(layers, text) ==
    IF layers = <<>>
    THEN text
    ELSE LET inner == Wrap(Tail(layers), text)
         IN  CASE Head(layers) = "encode" -> JsonEncode(inner)
               [] Head(layers) = "quote" -> <<Quote(0)>> \o inner \o <<Quote(0)>>
               [] Head(layers) = "pad" -> <<Space>> \o inner \o <<Space>>

LayerSeqs == UNION {[1..n -> Layers] : n \in 0..MaxWrap}

CoreTexts == {EventText, EmptyObjectText, ArrayText, NumberText, WordText, <<>>}

\* The state before a body arrives: express.text hands the handler the raw
\* text of the request.
BodyInit ==
    /\ now = 0
    /\ agents = <<>>
    /\ sessions = <<>>
    /\ events = <<>>
    /\ clients = {}
    /\ frames = [c \in ClientIds |-> <<>>]
    /\ filters = [c \in ClientIds |-> NoFilter]
    /\ heartbeats = {}
    /\ conn = [c \in ClientIds |-> "none"]
    /\ submitted = {}
    /\ proc = Started
    /\ \E core \in CoreTexts, layers \in LayerSeqs :
           last = [Op("body", NoPayload, FALSE, 0, "none", 0, 0) EXCEPT
                     !.body = Value("string", Wrap(layers, core)),
                     !.core = core,
                     !.layers = layers]

\* The event the validation accepts: an object with the required fields.
ValidBody(value) == value = Value("object", EventText)

\* POST /api/events with a text body: the body is coerced and validated.
PostBody ==
    /\ last.op = "body"
    /\ \E r \in {coerceJsonLikeBody(last.body)} :
           last' = [last EXCEPT
                      !.op = "coerceJsonLikeBody",
                      !.coerced = r,
                      !.code = IF ValidBody(r) THEN 201 ELSE 400]
    /\ UNCHANGED <<proc, now, agents, sessions, events, clients, frames, filters, heartbeats,
                   conn, submitted>>

BodyNext == PostBody

BodySpec == BodyInit /\ [][BodyNext]_vars

\* Ingest behind validation with subscribers on the stream.
QuietNext ==
    \/ IngestOne
    \/ IngestInvalid
    \/ Subscribe

QuietSpec == Init /\ [][QuietNext]_vars

\* ------------------------------------------------------ batch transaction

\* A store without the writer lock.
LockedNever(l) == FALSE

\* The single-writer lock of the store is held: a batch transaction has
\* begun and has not committed.
Locked(l) == l.op = "batching"

\* The store as a reader or another writer sees it: the rows written inside
\* a transaction show when it commits.
Observed == IF Locked(last) THEN last.snapshot ELSE Store

\* The batches whose items all pass validation.
ValidBatches == {items \in Batches : \A i \in DOMAIN items : Valid(items[i])}

\* POST /api/events/batch begins: the items are to be inserted inside one
\* transaction that holds the writer lock.
BeginBatch ==
    /\ ~Locked(last)
    /\ \E items \in ValidBatches :
          \E valid \in {SelectSeq(items, Valid)} :
              /\ Len(insertAll(Store, valid, now).events) <= MaxEvents
              /\ last' = [Op("batching", NoPayload, FALSE, 0, "none", 0, 0) EXCEPT
                            !.valid = [i \in DOMAIN items |-> Valid(items[i])],
                            !.rejected = Rejected(items),
                            !.snapshot = Store,
                            !.items = valid,
                            !.pending = valid]
    /\ UNCHANGED <<now, agents, sessions, events, clients, frames, filters, heartbeats,
                   conn, submitted, proc>>

\* The next item of the batch is inserted.
BatchItem ==
    /\ last.op = "batching"
    /\ last.pending # <<>>
    /\ \E r \in {insertEvent(Store, Head(last.pending), now)} :
          /\ agents' = r.agents
          /\ sessions' = r.sessions
          /\ events' = r.events
          /\ submitted' = submitted \cup ({Head(last.pending).event_id} \ {NoEventId})
          /\ last' = [last EXCEPT
                        !.pending = Tail(@),
                        !.received = @ + (IF r.created THEN 1 ELSE 0),
                        !.duplicates = @ + (IF r.created THEN 0 ELSE 1)]
    /\ UNCHANGED <<now, clients, frames, filters, heartbeats, conn, proc>>

\* The transaction commits and the batch is answered.
CommitBatch ==
    /\ last.op = "batching"
    /\ last.pending = <<>>
    /\ last' = [last EXCEPT !.op = "batch", !.created = last.received > 0, !.code = 201]
    /\ UNCHANGED <<now, agents, sessions, events, clients, frames, filters, heartbeats,
                   conn, submitted, proc>>

\* The other writers and the clock, which wait for the writer lock; the
\* clock is counted in minutes and does not move within one batch.
LockedIngest ==
    /\ ~Locked(last)
    /\ IngestOf({p \in Payloads : p.event_id = NoEventId /\ p.event_type = "tool_use"
                                     /\ p.session_id = "s2"})

LockedSweep == ~Locked(last) /\ Sweep

LockedTick == ~Locked(last) /\ Tick

TxNext ==
    \/ BeginBatch
    \/ BatchItem
    \/ CommitBatch
    \/ LockedIngest
    \/ LockedSweep
    \/ LockedTick

TxSpec == Init /\ [][TxNext]_vars

\* ----------------------------------------------------------- OTLP metrics

\* The keys of the last-value map; a key stands for one (metric, resource,
\* model) triple.
MetricKeys == {"input", "output"}

\* The value a key was last reported with, 0 when it has none.
previousValue(lastValues, key) ==
    IF lastValues[key] = <<>> THEN 0 ELSE lastValues[key][1]

\* A conversion that passes the cumulative value on as it is.
cumulativeToDeltaRaw(lastValues, key, value) == value

\* The delta of a cumulative value: what it adds to the last value of its key.
cumulativeToDelta(lastValues, key, value) == value - previousValue(lastValues, key)

OtelInit ==
    /\ now = 0
    /\ agents = <<>>
    /\ sessions = <<>>
    /\ events = <<>>
    /\ clients = {}
    /\ frames = [c \in ClientIds |-> <<>>]
    /\ filters = [c \in ClientIds |-> NoFilter]
    /\ heartbeats = {}
    /\ conn = [c \in ClientIds |-> "none"]
    /\ submitted = {}
    /\ proc = Started
    /\ last = [Op("init", NoPayload, FALSE, 0, "none", 0, 0) EXCEPT
                 !.lastValues = [k \in MetricKeys |-> <<>>]]

\* One data point of a monotonic counter arrives: its delta is derived and
\* the value becomes the last value of its key.
ReportMetric ==
    /\ Len(last.series) < MaxReports
    /\ \E key \in MetricKeys, value \in 0..MaxValue :
          /\ value >= previousValue(last.lastValues, key)
          /\ last' = [last EXCEPT
                        !.op = "metric",
                        !.series = Append(@, [key |-> key, value |-> value,
                                              delta |-> cumulativeToDelta(last.lastValues, key, value)]),
                        !.lastValues = [@ EXCEPT ![key] = <<value>>]]
    /\ UNCHANGED <<now, agents, sessions, events, clients, frames, filters,
                   heartbeats, conn, submitted, proc>>

\* The process restarts: the last-value map starts empty again.
RestartParser ==
    /\ last.op = "metric"
    /\ last' = [Op("init", NoPayload, FALSE, 0, "none", 0, 0) EXCEPT
                  !.lastValues = [k \in MetricKeys |-> <<>>]]
    /\ UNCHANGED <<now, agents, sessions, events, clients, frames, filters,
                   heartbeats, conn, submitted, proc>>

OtelNext == ReportMetric \/ RestartParser

OtelSpec == OtelInit /\ [][OtelNext]_vars

\* ----------------------------------------------------------------- claims

RowsWith(eventId) == {i \in DOMAIN events : events[i].event_id = eventId}

IsIngest(l) == l.op = "ingest"

\* The last operation was a single ingest that insertEvent answered with null.
IsDuplicate(l) == IsIngest(l) /\ ~l.created

\* The last operation was a single ingest that inserted a row.
IsCreated(l) == IsIngest(l) /\ l.created

\* C1: every event_id that single or batch ingests have carried, however
\* often, is the event_id of exactly one row of the events table.
C1_OneRowPerEventId ==
    \A e \in submitted : Cardinality(RowsWith(e)) = 1

\* An event_id was submitted again, alone or inside a batch, and both
\* event_ids are stored.
C1_Witness ==
    /\ \/ IsDuplicate(last)
       \/ last.op = "batch" /\ last.duplicates > 0
    /\ submitted = EventIds

\* The stored row of the event_id of payload p was written from p itself.
Resubmitted(E, p) ==
    \E i \in DOMAIN E :
        /\ E[i].event_id = p.event_id
        /\ E[i].session_id = p.session_id
        /\ E[i].event_type = p.event_type

\* C2: ingesting a payload again with the same event_id leaves the sessions
\* and events tables as they were, last_event_at of the session included.
C2_DuplicateLeavesStore ==
    [][(IsDuplicate(last') /\ Resubmitted(events, last'.payload))
        => (sessions' = sessions /\ events' = events)]_vars

\* C3: an ingest that is a duplicate by event_id leaves the status of its
\* session as it was.
C3_DuplicateKeepsStatus ==
    [][(IsDuplicate(last') /\ last'.payload.session_id \in DOMAIN sessions)
        => sessions'[last'.payload.session_id].status
             = sessions[last'.payload.session_id].status]_vars

\* C4: the registry never holds more than max_sse_clients subscribers, and a
\* subscribe that finds the registry full is answered with 503 and leaves the
\* registry as it was.
C4_RegistryBounded ==
    [][/\ Cardinality(clients') <= MaxSseClients
       /\ (last'.op = "subscribe" /\ Cardinality(clients) >= MaxSseClients)
            => (last'.code = 503 /\ clients' = clients)]_vars

\* The session of the last ingest.
Sid == last.payload.session_id

\* The last operation inserted a new event of type session_end.
NewEnd == IsCreated(last) /\ last.payload.event_type = "session_end"

\* The last operation inserted a new event of another type.
NewNonEnd == IsCreated(last) /\ last.payload.event_type # "session_end"

\* C5: a new session_end event moves an active session to idle and leaves
\* ended_at unset.
C5_EndMovesActiveToIdle ==
    (NewEnd /\ last.pre = "active")
        => (sessions[Sid].status = "idle" /\ sessions[Sid].ended_at = NULL)

\* C6: a new non-end event moves an idle session to active and sets its
\* last_event_at to the time of the ingest.
C6_EventReactivatesIdle ==
    (NewNonEnd /\ last.pre = "idle")
        => (sessions[Sid].status = "active" /\ sessions[Sid].last_event_at = now)

\* A new tool_use event has just arrived for a session that was idle.
C6_Witness == NewNonEnd /\ last.pre = "idle"

\* C7: a new event moves an ended session back to active.
C7_EventResurrectsEnded ==
    (IsCreated(last) /\ last.pre = "ended") => sessions[Sid].status = "active"

\* Session id of table S has a last_event_at older than n minutes at time t.
Stale(S, id, t, n) == id \in DOMAIN S /\ S[id].last_event_at < t - n

\* C8: a sweeper run moves every active session whose last_event_at is older
\* than the idle threshold to idle, with ended_at unset.
C8_SweepIdlesStaleActive ==
    [][last'.op = "sweep"
        => \A id \in DOMAIN sessions :
             (sessions[id].status = "active"
                /\ Stale(sessions, id, now, SessionTimeoutMinutes))
               => (sessions'[id].status = "idle" /\ sessions'[id].ended_at = NULL)]_vars

\* A sweeper run has just moved a session to idle while another session,
\* active and within the threshold, stayed active.
C8_Witness ==
    /\ last.op = "sweep"
    /\ last.idled > 0
    /\ \E id \in DOMAIN sessions : sessions[id].status = "idle"
    /\ \E id \in DOMAIN sessions : sessions[id].status = "active"

\* C9: a sweeper run moves every idle session whose last_event_at is older
\* than twice the idle threshold to ended and sets ended_at to the time of
\* the run.
C9_SweepEndsStaleIdle ==
    [][last'.op = "sweep"
        => \A id \in DOMAIN sessions :
             (sessions[id].status = "idle"
                /\ Stale(sessions, id, now, 2 * SessionTimeoutMinutes))
               => (sessions'[id].status = "ended" /\ sessions'[id].ended_at = <<now>>)]_vars

\* C10: a session without further events is eventually idle once it is past
\* the idle threshold, and eventually ended with ended_at set once it is
\* past twice the threshold.
C10_QuietSessionEnds ==
    \A id \in SessionIds :
        /\ (StatusOf(sessions, id) = "active"
              /\ Stale(sessions, id, now, SessionTimeoutMinutes))
             ~> (StatusOf(sessions, id) # "active"
                  \/ ~Stale(sessions, id, now, SessionTimeoutMinutes))
        /\ (StatusOf(sessions, id) = "idle"
              /\ Stale(sessions, id, now, 2 * SessionTimeoutMinutes))
             ~> ((StatusOf(sessions, id) = "ended" /\ sessions[id].ended_at # NULL)
                  \/ ~Stale(sessions, id, now, 2 * SessionTimeoutMinutes))

\* C11 (sessions that the idle sweep has ended have ended_at at or after
\* last_event_at and started_at) has no case in this program: the sweeper
\* runs updateIdleSessions only and never moves a session to ended (see C9).

\* The last operation inserted a new event that carries source = import.
IsImport(l) == IsCreated(l) /\ l.source = "import"

\* The client_timestamp of the last ingest is older than the historical
\* threshold at time t.
Historical(l, t) == l.client_timestamp < t - HistoricalMinutes

\* C12: an imported event whose client_timestamp is older than the
\* historical threshold leaves its session ended; an imported event with a
\* fresh client_timestamp, a session_end included, does not move its session
\* to ended.
C12_ImportFinalizesHistorical ==
    IsImport(last)
        => IF Historical(last, now)
           THEN sessions[Sid].status = "ended"
           ELSE last.pre # "ended" => sessions[Sid].status # "ended"

\* The first MaxFrames frames of a sequence of frames.
Recorded(log) == SubSeq(log, 1, IF Len(log) < MaxFrames THEN Len(log) ELSE MaxFrames)

IsEventFrame(f) == f.type = "event"

\* C13: the event frames of every subscriber are in ingest order (ascending
\* rowid), and every ingest that inserts a row appends the messages it
\* published, in the order of publication, to the stream of every subscriber.
C13_FramesInIngestOrder ==
    /\ [](\A c \in clients : \A i, j \in DOMAIN frames[c] :
            (i < j /\ IsEventFrame(frames[c][i]) /\ IsEventFrame(frames[c][j]))
                => frames[c][i].payload.id < frames[c][j].payload.id)
    /\ [][IsCreated(last')
            => \A c \in clients :
                 frames'[c] = Recorded(frames[c] \o last'.published)]_vars

\* A subscriber has received the event frames of two successive ingests.
C13_Witness ==
    /\ IsCreated(last)
    /\ \E c \in clients : \E i, j \in DOMAIN frames[c] :
          /\ i < j
          /\ IsEventFrame(frames[c][i])
          /\ IsEventFrame(frames[c][j])
          /\ frames[c][j].payload.id = Len(events)

\* C14: a subscriber whose response has closed (client close, abort or failed
\* write) is out of the registry and has no heartbeat interval; intervals
\* run for the registered clients only, and sse_clients of the health
\* endpoint is the number of connections that have not closed.
C14_DisconnectCleansUp ==
    /\ last.op = "close" => (last.client \notin clients /\ last.client \notin heartbeats)
    /\ heartbeats = clients
    /\ clientCount(clients) = Cardinality({c \in ClientIds : conn[c] # "none"})

\* The response of a subscriber has just closed after a failed write, while
\* another subscriber is still registered.
C14_Witness ==
    /\ last.op = "close"
    /\ last.was = "broken"
    /\ clients # {}

\* C15: the first frame of every registered subscriber's stream is the
\* connected frame.
C15_ConnectedFirst ==
    \A c \in clients : frames[c] # <<>> /\ frames[c][1].type = "connected"

\* A subscriber has received an event frame after the connected frame.
C15_Witness ==
    \E c \in clients : Len(frames[c]) >= 2 /\ IsEventFrame(frames[c][2])

\* The number of messages of a type among the published messages.
Count(msgs, type) == Cardinality({i \in DOMAIN msgs : msgs[i].type = type})

\* C16: an ingest that inserts a row publishes exactly one event message
\* and, if the status of its session changed, exactly one session_update
\* message, and none otherwise.
C16_CreatedPublishesOnce ==
    IsCreated(last)
        => /\ Count(last.published, "event") = 1
           /\ Count(last.published, "session_update")
                = (IF last.pre # sessions[Sid].status THEN 1 ELSE 0)
           /\ Len(last.published) <= 2

\* A session_end has just moved an active session to ended while a
\* subscriber was registered.
C16_Witness ==
    /\ IsCreated(last)
    /\ last.pre = "active"
    /\ sessions[Sid].status = "ended"
    /\ clients # {}

\* Every filter field that is set is carried by the payload with an equal
\* value.
Matches(f, payload) ==
    /\ f.agentType # "" => (payload.agent_type # Absent /\ payload.agent_type = f.agentType)
    /\ f.eventType # "" => (payload.event_type # Absent /\ payload.event_type = f.eventType)

\* C17: a published message is written to a subscriber if and only if every
\* filter field the subscriber has set is carried by the payload with an
\* equal value.
C17_DeliveredIffMatches ==
    [][last'.published # <<>>
        => \A c \in clients :
             frames'[c] = Recorded(frames[c] \o SelectSeq(last'.published,
                                       LAMBDA m : Matches(filters[c], m.payload)))]_vars

\* An event has just been written to a subscriber whose event_type filter it
\* matches and kept from a subscriber that filters on another agent type.
C17_Witness ==
    /\ IsCreated(last)
    /\ \E c1, c2 \in clients :
          /\ filters[c1].eventType = last.payload.event_type
          /\ frames[c1][Len(frames[c1])].type = "event"
          /\ filters[c2].agentType = "codex"
          /\ Len(frames[c2]) = 1

\* C18: a publish drops every subscriber whose buffer is full from the
\* registry.
C18_FullSubscriberDropped ==
    [][last'.published # <<>>
        => \A c \in clients : conn[c] = "full" => c \notin clients']_vars

\* C19: a heartbeat write that fails marks the connection as broken, and a
\* subscriber whose peer is gone, so that writes to it fail, is eventually
\* out of the registry.
C19_FailedWriteRemoves ==
    /\ [][(last'.op = "heartbeat" /\ last'.was = "dead")
            => conn'[last'.client] = "broken"]_vars
    /\ \A c \in ClientIds :
         (c \in clients /\ conn[c] \in {"dead", "broken"}) ~> (c \notin clients)

\* A heartbeat write has just failed on a registered subscriber.
C19_Witness ==
    /\ last.op = "heartbeat"
    /\ last.was = "dead"
    /\ last.client \in clients
    /\ conn[last.client] = "broken"

\* C20: a batch of n items answers with received + duplicates + the number
\* of rejected items = n, inserts as many rows as it reports received, and
\* rejects exactly the zero-based indices of the items that failed
\* validation.
C20_BatchAccounting ==
    [][last'.op = "batch"
        => /\ last'.received + last'.duplicates + Cardinality(last'.rejected)
                = Len(last'.valid)
           /\ last'.rejected = {i - 1 : i \in {j \in DOMAIN last'.valid : ~last'.valid[j]}}
           /\ Len(events') = Len(events) + last'.received]_vars

\* A batch of a duplicate and an invalid item has just been answered.
C20_Witness ==
    /\ last.op = "batch"
    /\ last.duplicates = 1
    /\ last.rejected = {1}
    /\ Len(last.valid) = 2

\* C21: an ingest in which a store write fails leaves the agents, sessions
\* and events tables as they were.
C21_FailedWriteLeavesStore ==
    [][(IsIngest(last') /\ last'.code = 500)
        => (agents' = agents /\ sessions' = sessions /\ events' = events)]_vars

\* The last operation was a single ingest or a batch that validation
\* rejected as a whole.
IsRejected(l) ==
    \/ IsIngest(l) /\ l.code = 400
    \/ l.op = "batch" /\ \A i \in DOMAIN l.valid : ~l.valid[i]

\* C22: a payload that validation rejects creates or updates no agent row,
\* no session row and no event row: a rejected request leaves the three
\* tables as they were, and no row of the store stems from a payload with an
\* empty session_id or an event_type outside the enum.
C22_RejectedLeavesStore ==
    /\ [](/\ "" \notin DOMAIN sessions
          /\ \A i \in DOMAIN events :
               events[i].session_id # "" /\ events[i].event_type \in EventTypes)
    /\ [][IsRejected(last')
            => (agents' = agents /\ sessions' = sessions /\ events' = events)]_vars

\* A batch of one valid and one invalid item has just been answered: the
\* valid item was inserted and its session exists.
C22_Witness ==
    /\ last.op = "batch"
    /\ last.rejected = {1}
    /\ last.received = 1
    /\ "s1" \in DOMAIN sessions

\* C23: an ingest of a payload without event_id is never answered as a
\* duplicate: it appends a new row written from the payload, also when a row
\* with the same contents is stored already.
C23_NoEventIdNeverDuplicate ==
    [][(IsIngest(last') /\ last'.payload.event_id = NoEventId)
        => /\ last'.created
           /\ last'.code = 201
           /\ events' = Append(events, last'.payload)]_vars

\* The same payload without event_id has been ingested twice and is stored
\* in two rows.
C23_Witness ==
    /\ IsCreated(last)
    /\ last.payload.event_id = NoEventId
    /\ Len(events) = 2
    /\ events[1] = events[2]

\* The size of metadata as truncateMetadata measures it: the UTF-8 bytes of
\* a string, and of the JSON text of any other value.
SerializedBytes(metadata) ==
    IF metadata.kind = "string"
    THEN byteLength(metadata.text)
    ELSE byteLength(safeJsonStringify(metadata))

IsTruncateMetadata(l) == l.op = "truncateMetadata"

\* C24: an event persisted from metadata whose serialized size exceeds the
\* byte cap has a metadata column of at most cap bytes in UTF-8 and
\* payload_truncated = 1.
C24_StoredWithinCap ==
    (IsTruncateMetadata(last) /\ SerializedBytes(last.metadata) > maxBytes)
        => /\ byteLength(last.stored.metadata) <= maxBytes
           /\ last.stored.payload_truncated = 1

\* A string of four-byte characters that is over the cap was stored: its
\* stored prefix fills the cap.
C24_Witness ==
    /\ IsTruncateMetadata(last)
    /\ last.metadata.kind = "string"
    /\ last.metadata.text = <<Run(4, maxBytes)>>
    /\ last.stored.payload_truncated = 1
    /\ byteLength(last.stored.metadata) = maxBytes

\* The summary object the specification describes: _truncated, the
\* original size, and each priority key the original has, with its value.
C25_SummaryMembers(metadata) ==
    LET present == SelectSeq(METADATA_PRIORITY_KEYS,
                             LAMBDA k : HasKey(metadata.members, k))
    IN  <<[key |-> "_truncated", value |-> JsonTrue],
          [key |-> "_original_bytes", value |-> JsonNumber(SerializedBytes(metadata))]>>
        \o [i \in 1..Len(present) |->
                [key |-> present[i], value |-> ValueOf(metadata.members, present[i])]]

C25_SummaryText(metadata) == safeJsonStringify(ObjectMetadata(C25_SummaryMembers(metadata)))

\* Text a is text b cut after some character.
RECURSIVE IsTextPrefix(_, _)
IsTextPrefix(a, b) ==
    \/ a = <<>>
    \/ /\ b # <<>>
       /\ Head(a).w = Head(b).w
       /\ \/ Head(a).n = Head(b).n /\ IsTextPrefix(Tail(a), Tail(b))
          \/ Head(a).n < Head(b).n /\ Tail(a) = <<>>

IsObjectOverCap(l) ==
    /\ IsTruncateMetadata(l)
    /\ l.metadata.kind = "object"
    /\ SerializedBytes(l.metadata) > maxBytes

\* C25 as stated: whenever object metadata exceeds the cap, the stored
\* metadata is the summary object with _truncated, _original_bytes and every
\* priority key of the original with its value.
C25_SummaryAlways ==
    IsObjectOverCap(last) => last.stored.metadata = C25_SummaryText(last.metadata)

\* C25 amended: when object metadata exceeds the cap, the stored metadata is
\* that summary object if the summary is within the cap, and otherwise the
\* longest prefix of the summary's JSON text that is within the cap and
\* splits no character.
C25_SummaryWithinCap ==
    IsObjectOverCap(last) =>
        /\ byteLength(C25_SummaryText(last.metadata)) <= maxBytes
              => last.stored.metadata = C25_SummaryText(last.metadata)
        /\ byteLength(C25_SummaryText(last.metadata)) > maxBytes
              => /\ byteLength(last.stored.metadata) <= maxBytes
                 /\ byteLength(last.stored.metadata) > maxBytes - 4
                 /\ IsTextPrefix(last.stored.metadata, C25_SummaryText(last.metadata))

\* An object with a short command and a long blob of four-byte characters
\* was stored: the summary keeps the command and drops the blob.
C25_Witness ==
    /\ IsObjectOverCap(last)
    /\ HasKey(last.metadata.members, "command")
    /\ HasKey(last.metadata.members, "blob")
    /\ ~HasKey(last.metadata.members, "type")
    /\ ValueOf(last.metadata.members, "command") = JsonString(Ascii(9))
    /\ ValueOf(last.metadata.members, "blob") = JsonString(<<Run(4, maxBytes \div 4 + 1)>>)
    /\ last.stored.metadata = C25_SummaryText(last.metadata)
    /\ byteLength(last.stored.metadata) < maxBytes

IsCoerced(l) == l.op = "coerceJsonLikeBody"

\* The string a body parses as, when it parses as a JSON string whose
\* trimmed contents look like JSON.
C26_Encoded(l) ==
    /\ tryParseJson(l.body.text).ok
    /\ tryParseJson(l.body.text).value.kind = "string"
    /\ trim(tryParseJson(l.body.text).value.text) # <<>>
    /\ Head(trim(tryParseJson(l.body.text).value.text)) \in {Char("{"), Char("[")}

\* C26: a body that parses as a JSON string whose trimmed contents look
\* like JSON is parsed again, and the value of that second parse is what is
\* validated; no body is unwrapped through more than three layers; a body
\* is accepted only if the value that was reached is a JSON object, and is
\* rejected with 400 otherwise.
C26_DoubleEncodedReparsed ==
    IsCoerced(last) =>
        /\ C26_Encoded(last)
              => \E inner \in {tryParseJson(tryParseJson(last.body.text).value.text)} :
                    /\ inner.ok => last.coerced = inner.value
                    /\ ~inner.ok => last.coerced = last.body
        /\ last.code = 201
              => /\ last.coerced.kind = "object"
                 /\ last.core = EventText
                 /\ Len(SelectSeq(last.layers, LAMBDA x : x # "pad")) < CoerceRounds
        /\ last.coerced.kind # "object" => last.code = 400

\* The JSON string encoding of an event object was posted and accepted as
\* that object.
C26_Witness ==
    /\ IsCoerced(last)
    /\ last.body.text = JsonEncode(EventText)
    /\ C26_Encoded(last)
    /\ last.coerced = Value("object", EventText)
    /\ last.code = 201

\* C27: the events table is append-only: no ingest, duplicate ingest, sweep
\* or passing of time changes or removes a row that was written; a step
\* changes the table only by adding rows after the ones that are there.
C27_EventsAppendOnly ==
    [][/\ Len(events') >= Len(events)
       /\ \A i \in DOMAIN events : events'[i] = events[i]]_vars

\* An event was posted again under its event_id with another event_type
\* while its row was in the table, next to a second row.
C27_Witness ==
    /\ IsIngest(last)
    /\ ~last.created
    /\ Len(events) = 2
    /\ \E i \in DOMAIN events :
          /\ events[i].event_id = last.payload.event_id
          /\ events[i].event_type # last.payload.event_type

\* C28: after any sequence of ingests every event's session_id is the id of
\* a session row and every session's agent_id is the id of an agent row.
C28_ParentsExist ==
    /\ \A i \in DOMAIN events : events[i].session_id \in DOMAIN sessions
    /\ \A s \in DOMAIN sessions : sessions[s].agent_id \in DOMAIN agents

\* Two events of two sessions of one agent were ingested into a store that
\* was empty.
C28_Witness ==
    /\ Len(events) = 2
    /\ events[1].session_id # events[2].session_id
    /\ Cardinality(DOMAIN sessions) = 2
    /\ \A s \in DOMAIN sessions : sessions[s].agent_id = AgentId("claude_code")
    /\ DOMAIN agents = {AgentId("claude_code")}
    /\ IsIngest(last)
    /\ last.created

\* C29: once the termination signal has been handled, the server accepts no
\* connection, the session checker and the stats broadcast are cancelled,
\* no subscriber is connected and the store is closed.
C29_ShutdownReleasesAll ==
    proc.signalled =>
        /\ ~proc.listening
        /\ ~proc.sessionChecker
        /\ ~proc.statsBroadcast
        /\ clients = {}
        /\ ~proc.db

\* C30: after a termination signal the process eventually exits with code 0,
\* whether or not subscribers are connected when the signal arrives.
C30_EventuallyExits == proc.signalled ~> (proc.exited /\ proc.exit_code = 0)

\* A periodic task has raised an error.
IsTaskError(l) == l.op = "sweep" /\ l.failed # ""

\* C31: when the idle sweep raises an error the process keeps running and
\* the sweep stays scheduled for its next tick.
C31_TaskErrorSwallowed ==
    IsTaskError(last) => ~proc.exited /\ proc.sessionChecker

\* The sessions a step changed.
Changed == {id \in DOMAIN sessions : sessions'[id] # sessions[id]}

\* The stream of subscriber c has room for a frame.
HasRoom(c) == conn[c] = "open" /\ Len(frames[c]) < MaxFrames

\* C32: an idle-sweeper run that changed at least one session hands one
\* session_update to the broadcaster and every subscriber gets exactly that
\* one frame, however many sessions changed; a run that changed no session
\* publishes nothing and no subscriber gets a frame.
C32_SweepBroadcastsOnce ==
    [][last'.op = "sweep"
        => /\ (Changed # {} /\ clients # {})
                => /\ last'.published = <<Frame("session_update", NoFields)>>
                   /\ \A c \in clients :
                         HasRoom(c)
                            => frames'[c] = Append(frames[c], Frame("session_update", NoFields))
           /\ Changed = {}
                => /\ last'.published = <<>>
                   /\ frames' = frames]_vars

\* A sweeper run has moved two sessions to idle at once, and the one
\* subscriber has got one session_update for it as its last frame.
C32_Witness ==
    /\ last.op = "sweep"
    /\ last.idled = 2
    /\ last.published = <<Frame("session_update", NoFields)>>
    /\ \E c \in clients :
          /\ Len(frames[c]) \in 2..(MaxFrames - 1)
          /\ frames[c][Len(frames[c])] = Frame("session_update", NoFields)
          /\ frames[c][Len(frames[c]) - 1] # Frame("session_update", NoFields)

\* The sessions that pass the filters of a session listing.
MatchingSessions(f) ==
    {id \in DOMAIN sessions :
        /\ f.status = "" \/ sessions[id].status = f.status
        /\ f.agentType = "" \/ sessions[id].agent_type = f.agentType}

\* C33: a session listing with limit = 0 returns every session that passes
\* its filters, and an event query with limit = 0 and no offset returns
\* every event that passes its filters.
C33_LimitZeroUnbounded ==
    /\ (last.op = "getSessions" /\ last.query.limit = <<0>>)
          => {r.id : r \in last.page} = MatchingSessions(last.query)
    /\ (last.op = "getEvents" /\ last.query.limit = <<0>> /\ last.query.offset = 0)
          => Cardinality(last.page) = last.total

\* C34: a session listing reports no stale idle session as live: a session
\* that is idle in the table with a last_event_at older than twice the idle
\* threshold is listed with status ended, and a listing of the sessions that
\* are not ended leaves it out.
C34_StaleIdleReadAsEnded ==
    last.op = "getSessions"
        => \A r \in last.page :
             (sessions[r.id].status = "idle"
                /\ Stale(sessions, r.id, now, 2 * SessionTimeoutMinutes))
               => r.status = "ended"

\* The data points of series before the i-th that carry its key.
Earlier(series, i) == {j \in 1..(i - 1) : series[j].key = series[i].key}

\* The value the key of the i-th data point was reported with before it.
ValueBefore(series, i) ==
    IF Earlier(series, i) = {} THEN 0
    ELSE series[CHOOSE j \in Earlier(series, i) : \A h \in Earlier(series, i) : h <= j].value

\* C35: of a cumulative series v1 <= v2 <= v3 on one key the conversion
\* derives the deltas v1, v2 - v1, v3 - v2: each data point's delta is its
\* value less the value reported before it on the same key, and is never
\* negative.
C35_CumulativeToDelta ==
    last.op = "metric"
        => \A i \in 1..Len(last.series) :
             /\ last.series[i].delta = last.series[i].value - ValueBefore(last.series, i)
             /\ last.series[i].delta >= 0

\* Three data points on one key, rising and then level: 1, 2, 2 gives the
\* deltas 1, 1, 0.
C35_Witness ==
    /\ last.op = "metric"
    /\ Len(last.series) = 3
    /\ \A i \in 1..3 : last.series[i].key = "input"
    /\ <<last.series[1].value, last.series[2].value, last.series[3].value>> = <<1, 2, 2>>
    /\ <<last.series[1].delta, last.series[2].delta, last.series[3].delta>> = <<1, 1, 0>>

\* The step handles the second of two ingests of one event_id that were sent
\* together: the ingest before it created the row, nothing ran in between
\* and the clock has not moved since.
SecondOfRace ==
    /\ IsCreated(last)
    /\ IsDuplicate(last')
    /\ last'.payload.event_id = last.payload.event_id
    /\ last'.payload.session_id = last.payload.session_id
    /\ sessions[last.payload.session_id].last_event_at = now
    /\ now' = now

\* C36: of two concurrent ingests of one event_id one is created and the
\* other a duplicate, one row holds the event_id, and the one handled second
\* leaves the status, ended_at and last_event_at of the session as the first
\* set them.
C36_RaceAppliesOnce ==
    [][SecondOfRace
        => /\ Cardinality({i \in DOMAIN events' : events'[i].event_id = last'.payload.event_id}) = 1
           /\ sessions'[last'.payload.session_id] = sessions[last'.payload.session_id]]_vars

\* The store that insertAll leaves.
StoreOf(r) == [agents |-> r.agents, sessions |-> r.sessions, events |-> r.events]

C38_SweepFrame ==
    [][last'.op = "sweep"
        => /\ agents' = agents
           /\ events' = events
           /\ DOMAIN sessions' = DOMAIN sessions
           /\ \A id \in DOMAIN sessions :
                /\ sessions'[id].last_event_at = sessions[id].last_event_at
                /\ sessions'[id].started_at = sessions[id].started_at
                /\ sessions'[id].agent_id = sessions[id].agent_id
                /\ sessions'[id].agent_type = sessions[id].agent_type
                /\ ~Stale(sessions, id, now, SessionTimeoutMinutes)
                     => sessions'[id] = sessions[id]]_vars

\* A sweeper run has just moved one session to idle while the other, which
\* had an event in this very minute, is active, and events are stored.
C38_Witness ==
    /\ last.op = "sweep"
    /\ last.idled = 1
    /\ events # <<>>
    /\ \E id \in DOMAIN sessions :
          sessions[id].status = "idle" /\ sessions[id].last_event_at < now
    /\ \E id \in DOMAIN sessions :
          sessions[id].status = "active" /\ sessions[id].last_event_at = now

\* C39: ended_at of a session is set exactly when its status is ended.
C39_EndedAtIffEnded ==
    \A id \in DOMAIN sessions :
        (sessions[id].ended_at # NULL) <=> (sessions[id].status = "ended")

\* A session that a session_end ended (ended_at set) has since had another
\* event and a sweeper run, beside a session that a sweeper run made idle.
C39_Witness ==
    /\ last.op = "sweep"
    /\ \E id \in DOMAIN sessions :
          /\ sessions[id].status = "ended"
          /\ sessions[id].ended_at # NULL
          /\ sessions[id].last_event_at > sessions[id].ended_at[1]
    /\ \E id \in DOMAIN sessions :
          sessions[id].status = "idle" /\ sessions[id].ended_at = NULL

\* C40: an ingest that is a duplicate or that validation rejects publishes
\* nothing: the route hands no message to the broadcaster and no subscriber
\* receives a frame of any type.
C40_QuietIngest ==
    [][(IsDuplicate(last') \/ IsRejected(last'))
        => (last'.published = <<>> /\ frames' = frames)]_vars

\* A duplicate session_end has just been answered while a subscriber that
\* had received the frame of the created event was on the stream; the
\* duplicate changed the status of its session.
C40_Witness ==
    /\ IsDuplicate(last)
    /\ last.code = 200
    /\ last.pre # sessions[last.payload.session_id].status
    /\ \E c \in clients : Len(frames[c]) >= 2

====
